---- MODULE Spec2Model ----
(***************************************************************************)
(* A model of two leaf utilities of pydantic_ai:                           *)
(*                                                                         *)
(*   split_content_into_text_and_thinking   (_thinking_part.py)            *)
(*   GoogleJsonSchemaTransformer.transform  (profiles/google.py)           *)
(*                                                                         *)
(* Strings of the splitter are sequences of one-character strings, so that *)
(* str.find and slicing are computed on the characters.  Positions are     *)
(* 0-based as in the source.                                               *)
(***************************************************************************)
EXTENDS Integers, Sequences, FiniteSets, TLC

VARIABLES content, start_pos, parts, spc,
          original, schema, warned, ref_val, tpc

vars == <<content, start_pos, parts, spc, original, schema, warned, ref_val, tpc>>

splitVars == <<content, start_pos, parts, spc>>

(***************************************************************************)
(* Bounds of the model.                                                    *)
(***************************************************************************)
MaxChunks == 5

MaxKeys == 3

MaxEnum == 2

MaxPrefix == 2

(***************************************************************************)
(* JSON values.  Every value is a record of the same shape, so that any    *)
(* two of them can be compared: tag names the JSON type, n holds a number  *)
(* or a boolean (1, 0), s a string, l the members of a list.  A nested     *)
(* schema {"type": t} is the value Schema(t), and {"anyOf": l} is AnyOf(l).*)
(***************************************************************************)
Null == [tag |-> "null", n |-> 0, s |-> "", l |-> <<>>]

JBool(b) == [tag |-> "bool", n |-> IF b THEN 1 ELSE 0, s |-> "", l |-> <<>>]

JInt(i) == [tag |-> "int", n |-> i, s |-> "", l |-> <<>>]

JStr(t) == [tag |-> "str", n |-> 0, s |-> t, l |-> <<>>]

JList(l) == [tag |-> "list", n |-> 0, s |-> "", l |-> l]

Schema(t) == [tag |-> "schema", n |-> 0, s |-> t, l |-> <<>>]

AnyOf(l) == [tag |-> "anyOf", n |-> 0, s |-> "", l |-> l]

\* a node is a function from the keys it has to their values
EmptyNode == [k \in {} |-> Null]

(***************************************************************************)
(* _thinking_part.py                                                       *)
(***************************************************************************)
START_THINK_TAG == <<"<", "t", "h", "i", "n", "k", ">">>

END_THINK_TAG == <<"<", "/", "t", "h", "i", "n", "k", ">">>

start_tag_len == Len(START_THINK_TAG)

end_tag_len == Len(END_THINK_TAG)

\* content[a:b] for 0 <= a, b <= len(content)
Slice(s, a, b) == SubSeq(s, a + 1, b)

\* content[a:]
SliceFrom(s, a) == SubSeq(s, a + 1, Len(s))

\* sub occurs in s at the 0-based position i
OccursAt(s, sub, i) ==
    /\ i >= 0
    /\ i + Len(sub) <= Len(s)
    /\ Slice(s, i, i + Len(sub)) = sub

\* s.find(sub, from): the lowest position >= from where sub occurs, else -1
Find(s, sub, from) ==
    LET hits == {i \in from..(Len(s) - Len(sub)) : OccursAt(s, sub, i)}
    IN  IF hits = {} THEN -1
        ELSE CHOOSE i \in hits : \A j \in hits : i <= j

TextPart(c) == [part_kind |-> "text", content |-> c]

ThinkingPart(c) == [part_kind |-> "thinking", content |-> c]

\* the tag length forgotten
ThinkStartNoSkip(start_index) == start_index

\* think_start = start_index + start_tag_len
ThinkStart(start_index) == start_index + start_tag_len

\* the cursor put back on the start tag
AdvanceToTagStart(start_index, end_index) == start_index

\* start_pos = end_index + end_tag_len
AdvanceCursor(start_index, end_index) == end_index + end_tag_len

\* the text emitted in front of a start tag (only if non-empty)
TextBefore(start_index) ==
    IF start_index > start_pos
    THEN <<TextPart(Slice(content, start_pos, start_index))>>
    ELSE <<>>

RECURSIVE Concat(_)
Concat(ss) == IF ss = <<>> THEN <<>> ELSE Head(ss) \o Concat(Tail(ss))

\* The inputs: up to MaxChunks pieces, among them the tags and their fragments.
Chunks == {START_THINK_TAG, END_THINK_TAG, <<"a">>, <<"<">>, <<"/">>,
           <<"t", "h", "i", "n", "k", ">">>}

RECURSIVE ChunkSeqs(_)
ChunkSeqs(n) ==
    IF n = 0 THEN {<<>>}
    ELSE LET shorter == ChunkSeqs(n - 1)
         IN  shorter \cup {Append(cs, c) : cs \in shorter, c \in Chunks}

Contents == {Concat(cs) : cs \in ChunkSeqs(MaxChunks)}

\* the transformer is not running
TransformIdle ==
    /\ original = EmptyNode
    /\ schema = EmptyNode
    /\ warned = FALSE
    /\ ref_val = Null
    /\ tpc = "idle"

SplitInit ==
    /\ content \in Contents
    /\ start_pos = 0
    /\ parts = <<>>
    /\ spc = "loop"
    /\ TransformIdle

\* while start_pos < content_len: false, return parts
LoopExit ==
    /\ spc = "loop"
    /\ ~(start_pos < Len(content))
    /\ spc' = "done"
    /\ UNCHANGED <<content, start_pos, parts>>

\* start_index == -1: the tail is text, break
NoStartTag ==
    /\ spc = "loop"
    /\ start_pos < Len(content)
    /\ Find(content, START_THINK_TAG, start_pos) = -1
    /\ parts' = IF start_pos < Len(content)
                THEN Append(parts, TextPart(SliceFrom(content, start_pos)))
                ELSE parts
    /\ spc' = "done"
    /\ UNCHANGED <<content, start_pos>>

\* end_index == -1: the body of the unterminated tag is text, break
UnterminatedTag ==
    /\ spc = "loop"
    /\ start_pos < Len(content)
    /\ LET start_index == Find(content, START_THINK_TAG, start_pos)
           think_start == ThinkStart(start_index)
       IN  /\ start_index # -1
           /\ Find(content, END_THINK_TAG, think_start) = -1
           /\ parts' = Append(parts \o TextBefore(start_index),
                              TextPart(SliceFrom(content, think_start)))
    /\ spc' = "done"
    /\ UNCHANGED <<content, start_pos>>

\* both tags found: a thinking part, and the cursor moves past the end tag
ClosedTag ==
    /\ spc = "loop"
    /\ start_pos < Len(content)
    /\ LET start_index == Find(content, START_THINK_TAG, start_pos)
           think_start == ThinkStart(start_index)
           end_index   == Find(content, END_THINK_TAG, think_start)
       IN  /\ start_index # -1
           /\ end_index # -1
           /\ parts' = Append(parts \o TextBefore(start_index),
                              ThinkingPart(Slice(content, think_start, end_index)))
           /\ start_pos' = AdvanceCursor(start_index, end_index)
    /\ UNCHANGED <<content, spc>>

SplitNext ==
    \/ LoopExit /\ UNCHANGED <<original, schema, warned, ref_val, tpc>>
    \/ NoStartTag /\ UNCHANGED <<original, schema, warned, ref_val, tpc>>
    \/ UnterminatedTag /\ UNCHANGED <<original, schema, warned, ref_val, tpc>>
    \/ ClosedTag /\ UNCHANGED <<original, schema, warned, ref_val, tpc>>

SplitSpec == SplitInit /\ [][SplitNext]_vars

\* The call runs to completion: a sequential loop that is never suspended.
SplitLive == SplitInit /\ [][SplitNext]_vars /\ WF_vars(SplitNext)

(***************************************************************************)
(* Properties of the splitter.                                             *)
(***************************************************************************)
\* every '<think>' of s is closed by a later '</think>'
WellFormed(s) ==
    \A i \in 0..Len(s) :
        OccursAt(s, START_THINK_TAG, i) =>
            \E j \in (i + 1)..Len(s) : OccursAt(s, END_THINK_TAG, j)

Render(p) ==
    IF p.part_kind = "thinking"
    THEN START_THINK_TAG \o p.content \o END_THINK_TAG
    ELSE p.content

RECURSIVE RenderAll(_)
RenderAll(ps) == IF ps = <<>> THEN <<>> ELSE Render(Head(ps)) \o RenderAll(Tail(ps))

\* C1: for a well-formed input, the fragments, a thinking fragment written
\* between its tags, concatenate to the input.
RoundTrip ==
    (spc = "done" /\ WellFormed(content)) => RenderAll(parts) = content

RoundTripWitness ==
    /\ spc = "done"
    /\ WellFormed(content)
    /\ Len(parts) >= 3
    /\ \E i \in 1..Len(parts) : parts[i].part_kind = "thinking" /\ parts[i].content # <<>>
    /\ \E i \in 1..Len(parts) : parts[i].part_kind = "text"

\* C2: no text fragment is ever empty.
NoEmptyText ==
    \A i \in 1..Len(parts) :
        parts[i].part_kind = "text" => parts[i].content # <<>>

\* C3: the scan ends for every input, each iteration that continues moves
\* the cursor strictly forward, and the empty input gives no fragment.
SplitTerminates ==
    /\ <>(spc = "done")
    /\ [][spc' = "loop" => start_pos' > start_pos]_splitVars
    /\ [](spc = "done" /\ content = <<>> => parts = <<>>)

SplitTerminatesWitness ==
    /\ spc = "done"
    /\ start_pos > end_tag_len + start_tag_len
    /\ Cardinality({i \in 1..Len(parts) : parts[i].part_kind = "thinking"}) >= 2

(***************************************************************************)
(* profiles/google.py: dict operations                                     *)
(***************************************************************************)
\* key in schema
Has(s, k) == k \in DOMAIN s

\* schema.get(key): None when the key is missing
Get(s, k) == IF Has(s, k) THEN s[k] ELSE Null

\* schema.pop(key, None), the node that is left
Pop(s, k) == [x \in DOMAIN s \ {k} |-> s[x]]

\* schema[key] = value
Set(s, k, v) == [x \in DOMAIN s \cup {k} |-> IF x = k THEN v ELSE s[x]]

\* schema.setdefault(key, value)
SetDefault(s, k, v) == IF Has(s, k) THEN s ELSE Set(s, k, v)

\* str(value) of a JSON scalar
PyStr(v) ==
    CASE v.tag = "str"  -> v.s
      [] v.tag = "int"  -> ToString(v.n)
      [] v.tag = "bool" -> IF v.n = 1 THEN "True" ELSE "False"
      [] v.tag = "null" -> "None"
      [] OTHER          -> "{'type': '" \o v.s \o "'}"

\* list(map(str, enum_vals))
MapStr(l) == [i \in 1..Len(l) |-> JStr(PyStr(l[i]))]

\* item in unique_items
InList(v, l) == \E i \in 1..Len(l) : l[i] = v

(***************************************************************************)
(* The rewrites of transform, in the order of the source.                  *)
(***************************************************************************)
\* additional_properties is not None: the warning is emitted
ShouldWarn(additional_properties) == additional_properties # Null

UNSUPPORTED_KEYS ==
    <<"title", "default", "$schema", "discriminator", "examples",
      "exclusiveMaximum", "exclusiveMinimum">>

\* for key in (...): schema.pop(key, None)
RECURSIVE PopAll(_, _)
PopAll(s, keys) ==
    IF keys = <<>> THEN s ELSE PopAll(Pop(s, Head(keys)), Tail(keys))

\* const read with get: the key stays in the node
ConstToEnumKeepsConst(s) ==
    LET const == Get(s, "const")
    IN  IF const # Null THEN Set(s, "enum", JList(<<const>>)) ELSE s

\* const = schema.pop('const', None); if const is not None: schema['enum'] = [const]
ConstToEnum(s) ==
    LET const == Get(s, "const")
        popped == Pop(s, "const")
    IN  IF const # Null THEN Set(popped, "enum", JList(<<const>>)) ELSE popped

\* type set with setdefault: a type the node has is kept
EnumToStringsKeepsType(s) ==
    LET enum_vals == Get(s, "enum")
    IN  IF enum_vals # Null
        THEN Set(SetDefault(s, "type", JStr("string")), "enum", JList(MapStr(enum_vals.l)))
        ELSE s

\* enum_vals = schema.get('enum'); if enum_vals is not None: ...
EnumToStrings(s) ==
    LET enum_vals == Get(s, "enum")
    IN  IF enum_vals # Null
        THEN Set(Set(s, "type", JStr("string")), "enum", JList(MapStr(enum_vals.l)))
        ELSE s

\* if 'oneOf' in schema and 'type' not in schema: schema['anyOf'] = schema.pop('oneOf')
OneOfToAnyOf(s) ==
    IF Has(s, "oneOf") /\ ~Has(s, "type")
    THEN Set(Pop(s, "oneOf"), "anyOf", s["oneOf"])
    ELSE s

\* the type test made on the node as passed in, in front of the enum step
FoldFormatOnOriginalType(s) ==
    IF Get(original, "type") = JStr("string")
    THEN LET fmt == Get(s, "format")
             popped == Pop(s, "format")
             desc == Get(popped, "description")
         IN  IF fmt # Null
             THEN IF desc # Null
                  THEN Set(popped, "description",
                           JStr(PyStr(desc) \o " (format: " \o PyStr(fmt) \o ")"))
                  ELSE Set(popped, "description", JStr("Format: " \o PyStr(fmt)))
             ELSE popped
    ELSE s

\* if schema.get('type') == 'string': fmt = schema.pop('format', None) ...
FoldFormat(s) ==
    IF Get(s, "type") = JStr("string")
    THEN LET fmt == Get(s, "format")
             popped == Pop(s, "format")
             desc == Get(popped, "description")
         IN  IF fmt # Null
             THEN IF desc # Null
                  THEN Set(popped, "description",
                           JStr(PyStr(desc) \o " (format: " \o PyStr(fmt) \o ")"))
                  ELSE Set(popped, "description", JStr("Format: " \o PyStr(fmt)))
             ELSE popped
    ELSE s

\* the test made on the key, not on its value
RefRaisesOnKey(s) == Has(s, "$ref")

\* ref_val = schema.get('$ref'); if ref_val is not None: raise UserError(...)
RefRaises(s) == Get(s, "$ref") # Null

\* no membership test: every item is added
AddAll(unique_items, prefix_items) == unique_items \o prefix_items

\* for item in prefix_items: if item not in unique_items: unique_add(item)
RECURSIVE AddUnique(_, _)
AddUnique(unique_items, prefix_items) ==
    IF prefix_items = <<>> THEN unique_items
    ELSE AddUnique(IF InList(Head(prefix_items), unique_items)
                   THEN unique_items
                   ELSE Append(unique_items, Head(prefix_items)),
                   Tail(prefix_items))

\* prefix_items = schema.pop('prefixItems', None); if prefix_items is not None: ...
CollapsePrefixItems(s) ==
    LET prefix_items == Get(s, "prefixItems")
        popped == Pop(s, "prefixItems")
        items == Get(popped, "items")
        unique_items ==
            AddUnique(IF items # Null THEN <<items>> ELSE <<>>, prefix_items.l)
        n_unique == Len(unique_items)
        with_items ==
            IF n_unique > 1 THEN Set(popped, "items", AnyOf(unique_items))
            ELSE IF n_unique = 1 THEN Set(popped, "items", unique_items[1])
            ELSE popped
        with_min == SetDefault(with_items, "minItems", JInt(Len(prefix_items.l)))
    IN  IF prefix_items # Null
        THEN IF items = Null
             THEN SetDefault(with_min, "maxItems", JInt(Len(prefix_items.l)))
             ELSE with_min
        ELSE popped

(***************************************************************************)
(* The nodes transform is called on: at most MaxKeys keys, each with one   *)
(* of the values below.                                                    *)
(***************************************************************************)
RECURSIVE SeqsUpTo(_, _)
SeqsUpTo(S, n) ==
    IF n = 0 THEN {<<>>}
    ELSE LET shorter == SeqsUpTo(S, n - 1)
         IN  shorter \cup {Append(q, x) : q \in shorter, x \in S}

EnumMembers == {JInt(1), JInt(2), JStr("1")}

SubSchemas == {Schema("string"), Schema("number")}

KeyOrder ==
    <<"additionalProperties", "const", "enum", "type", "oneOf", "format",
      "description", "$ref", "prefixItems", "items", "minItems", "maxItems">>
    \o UNSUPPORTED_KEYS

Options(k) ==
    CASE k = "additionalProperties" ->
             {Null, JBool(FALSE), JBool(TRUE), Schema("string")}
      [] k = "const"       -> {Null, JInt(5), JStr("a"), JBool(TRUE)}
      [] k = "enum"        -> {Null} \cup {JList(l) : l \in SeqsUpTo(EnumMembers, MaxEnum)}
      [] k = "type"        -> {JStr("string"), JStr("object")}
      [] k = "oneOf"       -> {JList(<<Schema("string"), Schema("number")>>)}
      [] k = "format"      -> {Null, JStr("date-time")}
      [] k = "description" -> {Null, JStr("A date")}
      [] k = "$ref"        -> {Null, JStr("#/$defs/Foo")}
      [] k = "prefixItems" -> {Null} \cup {JList(l) : l \in SeqsUpTo(SubSchemas, MaxPrefix)}
      [] k = "items"       -> {Null, Schema("string"), Schema("number")}
      [] k = "minItems"    -> {JInt(1)}
      [] k = "maxItems"    -> {JInt(5)}
      [] OTHER             -> {JStr("x")}

\* original is s extended by at most n of the keys KeyOrder[i..]
RECURSIVE IsNodeFrom(_, _, _)
IsNodeFrom(i, n, s) ==
    \/ original = s
    \/ /\ n > 0
       /\ \E j \in i..Len(KeyOrder) : \E v \in Options(KeyOrder[j]) :
              IsNodeFrom(j + 1, n - 1, Set(s, KeyOrder[j], v))

SplitIdle ==
    /\ content = <<>>
    /\ start_pos = 0
    /\ parts = <<>>
    /\ spc = "idle"

TransformInit ==
    /\ IsNodeFrom(1, MaxKeys, EmptyNode)
    /\ schema = original
    /\ warned = FALSE
    /\ ref_val = Null
    /\ tpc = "additionalProperties"
    /\ SplitIdle

\* lines 36-49
PopAdditionalProperties ==
    /\ tpc = "additionalProperties"
    /\ warned' = ShouldWarn(Get(schema, "additionalProperties"))
    /\ schema' = Pop(schema, "additionalProperties")
    /\ tpc' = "unsupported"
    /\ UNCHANGED <<original, ref_val>>

\* lines 52-53
PopUnsupported ==
    /\ tpc = "unsupported"
    /\ schema' = PopAll(schema, UNSUPPORTED_KEYS)
    /\ tpc' = "const"
    /\ UNCHANGED <<original, warned, ref_val>>

\* lines 55-58
RewriteConst ==
    /\ tpc = "const"
    /\ schema' = ConstToEnum(schema)
    /\ tpc' = "enum"
    /\ UNCHANGED <<original, warned, ref_val>>

\* lines 60-65
RewriteEnum ==
    /\ tpc = "enum"
    /\ schema' = EnumToStrings(schema)
    /\ tpc' = "oneOf"
    /\ UNCHANGED <<original, warned, ref_val>>

\* lines 67-69
RewriteOneOf ==
    /\ tpc = "oneOf"
    /\ schema' = OneOfToAnyOf(schema)
    /\ tpc' = "format"
    /\ UNCHANGED <<original, warned, ref_val>>

\* lines 71-79
RewriteFormat ==
    /\ tpc = "format"
    /\ schema' = FoldFormat(schema)
    /\ tpc' = "ref"
    /\ UNCHANGED <<original, warned, ref_val>>

\* the check moved behind the collapse of prefixItems
RaiseOnRefAfterCollapse ==
    /\ tpc = "ref"
    /\ RefRaises(schema)
    /\ ref_val' = Get(schema, "$ref")
    /\ schema' = CollapsePrefixItems(schema)
    /\ tpc' = "raised"
    /\ UNCHANGED <<original, warned>>

\* lines 81-83: raise UserError
RaiseOnRef ==
    /\ tpc = "ref"
    /\ RefRaises(schema)
    /\ ref_val' = Get(schema, "$ref")
    /\ tpc' = "raised"
    /\ UNCHANGED <<original, schema, warned>>

\* lines 81-82: no reference, go on
PassRef ==
    /\ tpc = "ref"
    /\ ~RefRaises(schema)
    /\ tpc' = "prefixItems"
    /\ UNCHANGED <<original, schema, warned, ref_val>>

\* lines 85-103: the last rewrite, return schema
RewritePrefixItems ==
    /\ tpc = "prefixItems"
    /\ schema' = CollapsePrefixItems(schema)
    /\ tpc' = "returned"
    /\ UNCHANGED <<original, warned, ref_val>>

TransformNext ==
    \/ PopAdditionalProperties /\ UNCHANGED splitVars
    \/ PopUnsupported /\ UNCHANGED splitVars
    \/ RewriteConst /\ UNCHANGED splitVars
    \/ RewriteEnum /\ UNCHANGED splitVars
    \/ RewriteOneOf /\ UNCHANGED splitVars
    \/ RewriteFormat /\ UNCHANGED splitVars
    \/ RaiseOnRef /\ UNCHANGED splitVars
    \/ PassRef /\ UNCHANGED splitVars
    \/ RewritePrefixItems /\ UNCHANGED splitVars

TransformSpec == TransformInit /\ [][TransformNext]_vars

(***************************************************************************)
(* Properties of transform.                                                *)
(***************************************************************************)
Returned == tpc = "returned"

Raised == tpc = "raised"

\* the key is there and its value is not null
NonNull(s, k) == Get(s, k) # Null

\* the key is as it was in the node transform was called on
Untouched(k) ==
    /\ Has(schema, k) <=> Has(original, k)
    /\ Has(original, k) => schema[k] = original[k]

\* bool(value) in Python
Truthy(v) ==
    CASE v.tag = "null"   -> FALSE
      [] v.tag = "bool"   -> v.n = 1
      [] v.tag = "int"    -> v.n # 0
      [] v.tag = "str"    -> v.s # ""
      [] v.tag = "schema" -> TRUE
      [] OTHER            -> v.l # <<>>

WarnIffTruthy ==
    tpc \notin {"idle", "additionalProperties"} =>
        /\ ~Has(schema, "additionalProperties")
        /\ warned <=> (Has(original, "additionalProperties")
                       /\ Truthy(original["additionalProperties"]))

\* C6 as amended: a non-null `const` v leaves no `const`, `type` "string" and
\* `enum` holding the text of v alone; a null `const` is only removed.
ConstBecomesStringEnum ==
    (Returned /\ Has(original, "const")) =>
        /\ ~Has(schema, "const")
        /\ original["const"] # Null =>
              /\ Get(schema, "enum") = JList(<<JStr(PyStr(original["const"]))>>)
              /\ Get(schema, "type") = JStr("string")
        /\ original["const"] = JInt(5) =>
              Get(schema, "enum") = JList(<<JStr("5")>>)
        /\ original["const"] = JBool(TRUE) =>
              Get(schema, "enum") = JList(<<JStr("True")>>)
        /\ (original["const"] = Null /\ ~Has(original, "enum")) =>
              ~Has(schema, "enum")
        /\ original = [const |-> JInt(5)] =>
              schema = [enum |-> JList(<<JStr("5")>>), type |-> JStr("string")]

ConstWitness ==
    /\ Returned
    /\ original = [const |-> JInt(5)]
    /\ schema = [enum |-> JList(<<JStr("5")>>), type |-> JStr("string")]

\* C6 as stated: `const` v leaves no `const` and `enum` holding v itself.
ConstBecomesEnumOfItself ==
    (Returned /\ Has(original, "const")) =>
        /\ ~Has(schema, "const")
        /\ Get(schema, "enum") = JList(<<original["const"]>>)
        /\ original = [const |-> JInt(5)] => schema = [enum |-> JList(<<JInt(5)>>)]

EnumIsTextOf(old) ==
    /\ Get(schema, "type") = JStr("string")
    /\ Get(schema, "enum").tag = "list"
    /\ Len(Get(schema, "enum").l) = Len(old.l)
    /\ \A i \in 1..Len(old.l) :
          /\ Get(schema, "enum").l[i] = JStr(PyStr(old.l[i]))
          /\ old.l[i].tag = "str" => Get(schema, "enum").l[i] = old.l[i]
    /\ old = JList(<<JInt(1), JInt(2)>>) =>
          Get(schema, "enum") = JList(<<JStr("1"), JStr("2")>>)

\* C7 as amended: a non-null `enum`, on a node with no non-null `const`,
\* comes back as the texts of its members in order, with `type` "string".
EnumCoercedToStrings ==
    (Returned /\ NonNull(original, "enum") /\ ~NonNull(original, "const")) =>
        EnumIsTextOf(original["enum"])

EnumWitness ==
    /\ Returned
    /\ Get(original, "type") = JStr("object")
    /\ Get(original, "enum") = JList(<<JInt(1), JStr("1")>>)
    /\ Get(schema, "enum") = JList(<<JStr("1"), JStr("1")>>)
    /\ Get(schema, "type") = JStr("string")

\* C7 as stated: every node without `$ref` that has an `enum` key comes
\* back with the texts of the members of that `enum` and `type` "string".
EnumKeyCoercedToStrings ==
    (Returned /\ ~Has(original, "$ref") /\ Has(original, "enum")
              /\ original["enum"].tag = "list") =>
        EnumIsTextOf(original["enum"])

\* the first occurrences of the members of l, in order
FirstOccurrences(l) ==
    LET keep == {i \in 1..Len(l) : \A j \in 1..(i - 1) : l[j] # l[i]}
        nth[i \in 1..Cardinality(keep)] ==
            CHOOSE k \in keep : Cardinality({m \in keep : m < k}) = i - 1
    IN  [i \in 1..Cardinality(keep) |-> l[nth[i]]]

\* the collapse of `prefixItems` of length n, prior being the `items` that
\* count as there before the call (a sequence of none or one)
CollapsedAs(prior, n) ==
    LET merged == FirstOccurrences(prior \o original["prefixItems"].l)
    IN  /\ ~Has(schema, "prefixItems")
        /\ Len(merged) > 1 => Get(schema, "items") = AnyOf(merged)
        /\ Len(merged) = 1 => Get(schema, "items") = merged[1]
        /\ Len(merged) = 0 => Untouched("items")
        /\ IF Has(original, "minItems") THEN Untouched("minItems")
           ELSE Get(schema, "minItems") = JInt(n)
        /\ IF Has(original, "maxItems") THEN Untouched("maxItems")
           ELSE IF prior = <<>> THEN Get(schema, "maxItems") = JInt(n)
           ELSE ~Has(schema, "maxItems")

\* C8 as amended: as stated, a null `items` counting as no prior `items`.
PrefixItemsCollapsed ==
    (Returned /\ NonNull(original, "prefixItems")) =>
        CollapsedAs(IF NonNull(original, "items") THEN <<original["items"]>> ELSE <<>>,
                    Len(original["prefixItems"].l))

PrefixItemsWitness ==
    /\ Returned
    /\ Get(original, "items") = Schema("number")
    /\ Get(original, "prefixItems") = JList(<<Schema("string"), Schema("number")>>)
    /\ Get(schema, "items") = AnyOf(<<Schema("number"), Schema("string")>>)
    /\ Get(schema, "minItems") = JInt(2)
    /\ ~Has(schema, "maxItems")

\* C8 as stated: the prior `items`, if the key is present, heads the merged
\* list, and `maxItems` is set only when the node had no `items` key.
PrefixItemsCollapsedOnKey ==
    (Returned /\ ~Has(original, "$ref") /\ NonNull(original, "prefixItems")) =>
        CollapsedAs(IF Has(original, "items") THEN <<original["items"]>> ELSE <<>>,
                    Len(original["prefixItems"].l))

\* `type` is "string" once const and enum have been rewritten
StringTyped ==
    \/ NonNull(original, "const")
    \/ NonNull(original, "enum")
    \/ Get(original, "type") = JStr("string")

\* C9 as amended: a non-null `format` is folded into `description` exactly
\* when `type` is "string" after the enum step, a null `description`
\* counting as none; a null `format` is removed then, and never folded.
FormatFoldedAfterEnum ==
    (Returned /\ Has(original, "format")) =>
        IF StringTyped
        THEN /\ ~Has(schema, "format")
             /\ IF original["format"] = Null THEN Untouched("description")
                ELSE Get(schema, "description") =
                        IF NonNull(original, "description")
                        THEN JStr(original["description"].s \o " (format: "
                                  \o original["format"].s \o ")")
                        ELSE JStr("Format: " \o original["format"].s)
        ELSE Untouched("format") /\ Untouched("description")

FormatWitness ==
    /\ Returned
    /\ ~Has(original, "type")
    /\ NonNull(original, "enum")
    /\ Get(original, "format") = JStr("date-time")
    /\ Get(schema, "description") = JStr("A date (format: date-time)")
    /\ ~Has(schema, "format")

\* C9 as stated: every `format` key of a node without `$ref` is folded
\* into `description`, appended to the one the node has, exactly when
\* `type` is "string" after the enum step.
FormatKeyFoldedAfterEnum ==
    (Returned /\ ~Has(original, "$ref") /\ Has(original, "format")) =>
        IF StringTyped
        THEN /\ ~Has(schema, "format")
             /\ Get(schema, "description") =
                    IF Has(original, "description")
                    THEN JStr(PyStr(original["description"]) \o " (format: "
                              \o PyStr(original["format"]) \o ")")
                    ELSE JStr("Format: " \o PyStr(original["format"]))
        ELSE Untouched("format") /\ Untouched("description")

\* every rewrite in front of the `$ref` check has been applied
RewrittenUpToRef ==
    /\ ~Has(schema, "additionalProperties")
    /\ \A i \in 1..Len(UNSUPPORTED_KEYS) : ~Has(schema, UNSUPPORTED_KEYS[i])
    /\ ~Has(schema, "const")
    /\ NonNull(schema, "enum") =>
          /\ Get(schema, "type") = JStr("string")
          /\ \A i \in 1..Len(schema["enum"].l) : schema["enum"].l[i].tag = "str"
    /\ ~(Has(schema, "oneOf") /\ ~Has(schema, "type"))
    /\ Has(original, "oneOf") => (Has(schema, "oneOf") \/ Has(schema, "anyOf"))
    /\ Get(schema, "type") = JStr("string") => ~Has(schema, "format")

\* C10 as amended: when the error is raised every rewrite but the collapse
\* of `prefixItems` has been applied; `prefixItems`, `items`, `minItems`
\* and `maxItems` are still as they were passed in.
RefCheckedBeforePrefixItems ==
    Raised =>
        /\ RewrittenUpToRef
        /\ Untouched("prefixItems")
        /\ Untouched("items")
        /\ Untouched("minItems")
        /\ Untouched("maxItems")

RefCheckWitness ==
    /\ Raised
    /\ NonNull(original, "prefixItems")
    /\ NonNull(original, "const")
    /\ Has(schema, "prefixItems")
    /\ Has(schema, "enum")

\* C10 as stated: when the error is raised every rewrite, the collapse of
\* `prefixItems` among them, has been applied.
RefCheckedLast ==
    (Raised /\ NonNull(original, "prefixItems")) =>
        /\ RewrittenUpToRef
        /\ ~Has(schema, "prefixItems")
        /\ Has(schema, "minItems")

====
